---------------------------- MODULE Spec2Model ----------------------------
(***************************************************************************)
(* Harmonic analysis engine of the MIDI keyboard monitor:                  *)
(* MusicTheoryEngine (key-signature table, chord-pattern map, note naming, *)
(* scale degrees, diatonicity, accidentals) and ChordAnalyzer (interval    *)
(* naming, chord matching, inversion figures, secondary dominants, Roman   *)
(* numerals).  MidiManager (device polling, the driver's callback and the  *)
(* timer's drain of the message queue) is modelled as a second state       *)
(* machine on its own variables.                                           *)
(*                                                                         *)
(* Text.  The program's strings are modelled as TLA+ strings.  A code      *)
(* point outside ASCII is written as a token "<name>" (the source never    *)
(* uses the characters < and > in its strings, and no token contains a     *)
(* digit), so that concatenation, equality and substring search on the     *)
(* model strings agree with the program's, and Utf8 recovers the bytes     *)
(* that std::string comparison looks at.                                   *)
(***************************************************************************)
EXTENDS Integers, Sequences, FiniteSets, TLC

VARIABLES
    keySignatures,  \* MusicTheoryEngine::keySignatures (std::vector)
    pc,             \* "idle" before a call, "returned" after it
    op,             \* the operation that was called
    args,           \* its arguments
    ret,            \* what it returned (with the locals of analyzeChord)
    manager,        \* the members of the MidiManager object
    driver,         \* the MIDI driver thread: its place in midiCallback, its message
    mainThread,     \* the GUI thread: its place in processPendingMidiMessages, its local messages
    ports,          \* the MIDI input ports the system offers (RtMidiIn::getPortName)
    history         \* what has happened so far: arrivals, pushes, handled messages, signals

engineVars == <<keySignatures, pc, op, args, ret>>
midiVars == <<manager, driver, mainThread, ports, history>>
vars == <<keySignatures, pc, op, args, ret, manager, driver, mainThread, ports, history>>

---------------------------------------------------------------------------
(* Bounds of the explored inputs *)

\* analyzeNotes is called on sets of at most MaxNotes notes of NoteLo..NoteHi
NoteLo == 57
NoteHi == 72
MaxNotes == 4
\* and on the larger sets, of up to MaxLargeNotes notes, of LargeLo..LargeHi
LargeLo == 60
LargeHi == 72
MaxLargeNotes == 5
\* calculateInversionFigure is called on bass and root notes of FigLo..FigHi
FigLo == 48
FigHi == 72
\* findAccidentalNotes is called on sequences of at most MaxAccLen notes of AccLo..AccHi
AccLo == 60
AccHi == 66
MaxAccLen == 3
\* getKeySignature is called on the indices -IndexSlack .. 29 + IndexSlack
IndexSlack == 3
\* matchChordPattern is called on sorted vectors of at most MaxIntervals intervals of 0..11
MaxIntervals == 4
\* midiNoteToNoteNameInKey is called on the MIDI notes MidiLo..MidiHi
MidiLo == 0
MidiHi == 127
\* the driver delivers at most MaxMessages raw messages
MaxMessages == 3
\* the system offers at most MaxPorts input ports, and the set of ports
\* changes at most MaxPortChanges times
MaxPorts == 2
MaxPortChanges == 3

---------------------------------------------------------------------------
(* Code points outside ASCII *)

FLAT == "<flat>"
SHY == "<shy>"
OSLASH == "<oslash>"
DEG == "<deg>"
SUP3 == "<sup-three>"
SUP6 == "<sup-six>"
SUP7 == "<sup-seven>"
SUB2 == "<sub-two>"
SUB4 == "<sub-four>"
SUB5 == "<sub-five>"
SUB6 == "<sub-six>"

\* the UTF-8 encoding of each of them
GlyphBytes(tok) ==
    CASE tok = FLAT   -> <<226, 153, 173>>
      [] tok = SHY    -> <<194, 173>>
      [] tok = OSLASH -> <<195, 184>>
      [] tok = DEG    -> <<194, 176>>
      [] tok = SUP3   -> <<194, 179>>
      [] tok = SUP6   -> <<226, 129, 182>>
      [] tok = SUP7   -> <<226, 129, 183>>
      [] tok = SUB2   -> <<226, 130, 130>>
      [] tok = SUB4   -> <<226, 130, 132>>
      [] tok = SUB5   -> <<226, 130, 133>>
      [] tok = SUB6   -> <<226, 130, 134>>

\* the printable ASCII characters 32..95 and 97..126, in code order
AsciiLow == " !\"#$%&'()*+,-./0123456789:;<=>?@ABCDEFGHIJKLMNOPQRSTUVWXYZ[\\]^_"
AsciiHigh == "abcdefghijklmnopqrstuvwxyz{|}~"

AsciiCode(c) ==
    IF \E i \in 1..Len(AsciiLow) : SubSeq(AsciiLow, i, i) = c
    THEN 31 + (CHOOSE i \in 1..Len(AsciiLow) : SubSeq(AsciiLow, i, i) = c)
    ELSE 96 + (CHOOSE i \in 1..Len(AsciiHigh) : SubSeq(AsciiHigh, i, i) = c)

RECURSIVE Utf8(_)
Utf8(s) ==
    IF Len(s) = 0 THEN <<>>
    ELSE IF SubSeq(s, 1, 1) = "<"
         THEN LET j == CHOOSE k \in 1..Len(s) :
                           /\ SubSeq(s, k, k) = ">"
                           /\ \A m \in 1..(k-1) : SubSeq(s, m, m) # ">"
              IN GlyphBytes(SubSeq(s, 1, j)) \o Utf8(SubSeq(s, j+1, Len(s)))
         ELSE <<AsciiCode(SubSeq(s, 1, 1))>> \o Utf8(SubSeq(s, 2, Len(s)))

\* std::string::operator< : lexicographic comparison of the bytes
RECURSIVE BytesLess(_, _)
BytesLess(a, b) ==
    IF Len(b) = 0 THEN FALSE
    ELSE IF Len(a) = 0 THEN TRUE
    ELSE IF Head(a) # Head(b) THEN Head(a) < Head(b)
    ELSE BytesLess(Tail(a), Tail(b))

StringLess(s, t) == BytesLess(Utf8(s), Utf8(t))

\* std::string::find(t) != npos
Contains(s, t) ==
    \E i \in 1..(Len(s) - Len(t) + 1) : SubSeq(s, i, i + Len(t) - 1) = t

\* QString::number
Number(n) == ToString(n)

\* C++ integer division and remainder (truncation toward zero)
CDiv(a, b) == IF a >= 0 THEN a \div b ELSE -((-a) \div b)
CRem(a, b) == IF a >= 0 THEN a % b ELSE -((-a) % b)

Range(s) == {s[i] : i \in 1..Len(s)}

---------------------------------------------------------------------------
(* MusicTheoryEngine: the two tables *)

initializeKeySignatures ==
    <<
      [name |-> "C Major", sharps |-> <<>>, flats |-> <<>>, tonic |-> 0, isMajor |-> TRUE],
      [name |-> "G Major", sharps |-> <<6>>, flats |-> <<>>, tonic |-> 7, isMajor |-> TRUE],
      [name |-> "D Major", sharps |-> <<6, 1>>, flats |-> <<>>, tonic |-> 2, isMajor |-> TRUE],
      [name |-> "A Major", sharps |-> <<6, 1, 8>>, flats |-> <<>>, tonic |-> 9, isMajor |-> TRUE],
      [name |-> "E Major", sharps |-> <<6, 1, 8, 3>>, flats |-> <<>>, tonic |-> 4, isMajor |-> TRUE],
      [name |-> "B Major", sharps |-> <<6, 1, 8, 3, 10>>, flats |-> <<>>, tonic |-> 11, isMajor |-> TRUE],
      [name |-> "F# Major", sharps |-> <<6, 1, 8, 3, 10, 5>>, flats |-> <<>>, tonic |-> 6, isMajor |-> TRUE],
      [name |-> "C# Major", sharps |-> <<0, 6, 1, 8, 3, 10, 5>>, flats |-> <<>>, tonic |-> 1, isMajor |-> TRUE],
      [name |-> "F Major", sharps |-> <<>>, flats |-> <<10>>, tonic |-> 5, isMajor |-> TRUE],
      [name |-> "B" \o FLAT \o " Major", sharps |-> <<>>, flats |-> <<10, 3>>, tonic |-> 10, isMajor |-> TRUE],
      [name |-> "E" \o FLAT \o " Major", sharps |-> <<>>, flats |-> <<10, 3, 8>>, tonic |-> 3, isMajor |-> TRUE],
      [name |-> "A" \o FLAT \o " Major", sharps |-> <<>>, flats |-> <<10, 3, 8, 1>>, tonic |-> 8, isMajor |-> TRUE],
      [name |-> "D" \o FLAT \o " Major", sharps |-> <<>>, flats |-> <<10, 3, 8, 1, 6>>, tonic |-> 1, isMajor |-> TRUE],
      [name |-> "G" \o FLAT \o " Major", sharps |-> <<>>, flats |-> <<10, 3, 8, 1, 6, 11>>, tonic |-> 6, isMajor |-> TRUE],
      [name |-> "C" \o FLAT \o " Major", sharps |-> <<>>, flats |-> <<0, 10, 3, 8, 1, 6, 11>>, tonic |-> 11, isMajor |-> TRUE],
      [name |-> "A minor", sharps |-> <<>>, flats |-> <<>>, tonic |-> 9, isMajor |-> FALSE],
      [name |-> "E minor", sharps |-> <<6>>, flats |-> <<>>, tonic |-> 4, isMajor |-> FALSE],
      [name |-> "B minor", sharps |-> <<6, 1>>, flats |-> <<>>, tonic |-> 11, isMajor |-> FALSE],
      [name |-> "F# minor", sharps |-> <<6, 1, 8>>, flats |-> <<>>, tonic |-> 6, isMajor |-> FALSE],
      [name |-> "C# minor", sharps |-> <<6, 1, 8, 3>>, flats |-> <<>>, tonic |-> 1, isMajor |-> FALSE],
      [name |-> "G# minor", sharps |-> <<6, 1, 8, 3, 10>>, flats |-> <<>>, tonic |-> 8, isMajor |-> FALSE],
      [name |-> "D# minor", sharps |-> <<6, 1, 8, 3, 10, 5>>, flats |-> <<>>, tonic |-> 3, isMajor |-> FALSE],
      [name |-> "A# minor", sharps |-> <<0, 6, 1, 8, 3, 10, 5>>, flats |-> <<>>, tonic |-> 10, isMajor |-> FALSE],
      [name |-> "D minor", sharps |-> <<>>, flats |-> <<10>>, tonic |-> 2, isMajor |-> FALSE],
      [name |-> "G minor", sharps |-> <<>>, flats |-> <<10, 3>>, tonic |-> 7, isMajor |-> FALSE],
      [name |-> "C minor", sharps |-> <<>>, flats |-> <<10, 3, 8>>, tonic |-> 0, isMajor |-> FALSE],
      [name |-> "F minor", sharps |-> <<>>, flats |-> <<10, 3, 8, 1>>, tonic |-> 5, isMajor |-> FALSE],
      [name |-> "B" \o FLAT \o " minor", sharps |-> <<>>, flats |-> <<10, 3, 8, 1, 6>>, tonic |-> 10, isMajor |-> FALSE],
      [name |-> "E" \o FLAT \o " minor", sharps |-> <<>>, flats |-> <<10, 3, 8, 1, 6, 11>>, tonic |-> 3, isMajor |-> FALSE],
      [name |-> "A" \o FLAT \o " minor", sharps |-> <<>>, flats |-> <<0, 10, 3, 8, 1, 6, 11>>, tonic |-> 8, isMajor |-> FALSE]
    >>

\* the assignments chordPatterns[label] = {...} in the order the source makes them
ChordPatternInsertions ==
    <<
      <<"maj", <<0, 4, 7>>>>,
      <<"maj7", <<0, 4, 7, 11>>>>,
      <<"maj9", <<0, 4, 7, 11, 14>>>>,
      <<"6", <<0, 4, 7, 9>>>>,
      <<"add9", <<0, 4, 7, 14>>>>,
      <<"m", <<0, 3, 7>>>>,
      <<"m7", <<0, 3, 7, 10>>>>,
      <<"m9", <<0, 3, 7, 10, 14>>>>,
      <<"m6", <<0, 3, 7, 9>>>>,
      <<"mMaj7", <<0, 3, 7, 11>>>>,
      <<"7", <<0, 4, 7, 10>>>>,
      <<"9", <<0, 4, 7, 10, 14>>>>,
      <<"11", <<0, 4, 7, 10, 14, 17>>>>,
      <<"13", <<0, 4, 7, 10, 14, 17, 21>>>>,
      <<"dim", <<0, 3, 6>>>>,
      <<"dim7", <<0, 3, 6, 9>>>>,
      <<OSLASH \o "7", <<0, 3, 6, 10>>>>,
      <<"aug", <<0, 4, 8>>>>,
      <<"aug7", <<0, 4, 8, 10>>>>,
      <<"sus2", <<0, 2, 7>>>>,
      <<"sus4", <<0, 5, 7>>>>,
      <<"7sus2", <<0, 2, 7, 10>>>>,
      <<"7sus4", <<0, 5, 7, 10>>>>,
      <<"7" \o FLAT \o SHY \o SHY \o "5", <<0, 4, 6, 10>>>>,
      <<"7#5", <<0, 4, 8, 10>>>>,
      <<"7" \o FLAT \o "9", <<0, 4, 7, 10, 13>>>>,
      <<"7#9", <<0, 4, 7, 10, 15>>>>,
      <<"7#11", <<0, 4, 7, 10, 18>>>>
    >>

\* std::map<std::string, ...>::operator[] followed by assignment: the map
\* keeps its entries ordered by key (std::less<std::string>)
MapAssign(m, k, v) ==
    IF \E i \in 1..Len(m) : m[i][1] = k
    THEN [i \in 1..Len(m) |-> IF m[i][1] = k THEN <<k, v>> ELSE m[i]]
    ELSE LET n == Cardinality({i \in 1..Len(m) : StringLess(m[i][1], k)})
         IN SubSeq(m, 1, n) \o << <<k, v>> >> \o SubSeq(m, n+1, Len(m))

RECURSIVE MapAssignAll(_, _)
MapAssignAll(m, ins) ==
    IF ins = <<>> THEN m
    ELSE MapAssignAll(MapAssign(m, Head(ins)[1], Head(ins)[2]), Tail(ins))

\* the entries kept in the order of the assignments
initializeChordPatternsInOrder == ChordPatternInsertions

\* the map as a range-for loop sees it: <<first, second>> pairs in key order
initializeChordPatterns == MapAssignAll(<<>>, ChordPatternInsertions)

\* MusicTheoryEngine::chordPatterns: written by the constructor only, and handed
\* out by getChordPatterns() as a const reference
chordPatterns == initializeChordPatterns

---------------------------------------------------------------------------
(* MusicTheoryEngine: queries *)

\* getKeySignature clamping an out-of-range index to the last entry
getKeySignatureClampLast(index) ==
    IF index < 0 \/ index >= Len(keySignatures)
    THEN keySignatures[Len(keySignatures)]
    ELSE keySignatures[index + 1]

getKeySignature(index) ==
    IF index < 0 \/ index >= Len(keySignatures)
    THEN keySignatures[1]
    ELSE keySignatures[index + 1]

sharpNames == <<"C", "C#", "D", "D#", "E", "F", "F#", "G", "G#", "A", "A#", "B">>
flatNames == <<"C", "D" \o FLAT, "D", "E" \o FLAT, "E", "F", "G" \o FLAT, "G", "A" \o FLAT, "A", "B" \o FLAT, "B">>

\* midiNoteToNoteNameInKey looking at the sharps of the key only
midiNoteToNoteNameInKeySharpsOnly(midiNote, key) ==
    LET noteClass == CRem(midiNote, 12)
        octave == CDiv(midiNote, 12) - 1
    IN sharpNames[noteClass + 1] \o Number(octave)

midiNoteToNoteNameInKey(midiNote, key) ==
    LET noteClass == CRem(midiNote, 12)
        octave == CDiv(midiNote, 12) - 1
        noteName == IF noteClass \in Range(key.sharps) THEN sharpNames[noteClass + 1]
                    ELSE IF noteClass \in Range(key.flats) THEN flatNames[noteClass + 1]
                    ELSE sharpNames[noteClass + 1]
    IN noteName \o Number(octave)

midiNoteToNoteName(midiNote) ==
    sharpNames[CRem(midiNote, 12) + 1] \o Number(CDiv(midiNote, 12) - 1)

majorScaleDegrees == <<1, -1, 2, -1, 3, 4, -1, 5, -1, 6, -1, 7>>
minorScaleDegrees == <<1, -1, 2, 3, -1, 4, -1, 5, 6, -1, 7, -1>>

\* getScaleDegree with the harmonic minor table (raised seventh) for minor keys
getScaleDegreeHarmonicMinor(noteClass, key) ==
    LET degree == CRem(noteClass - key.tonic + 12, 12)
        harmonicMinorScaleDegrees == <<1, -1, 2, 3, -1, 4, -1, 5, 6, -1, -1, 7>>
    IN IF key.isMajor THEN majorScaleDegrees[degree + 1] ELSE harmonicMinorScaleDegrees[degree + 1]

getScaleDegree(noteClass, key) ==
    LET degree == CRem(noteClass - key.tonic + 12, 12)
    IN IF key.isMajor THEN majorScaleDegrees[degree + 1] ELSE minorScaleDegrees[degree + 1]

majorFunctions == <<"Tonic", "Supertonic", "Mediant", "Subdominant", "Dominant", "Submediant", "Leading Tone">>
minorFunctions == <<"Tonic", "Supertonic", "Mediant", "Subdominant", "Dominant", "Submediant", "Subtonic">>

getFunctionName(scaleDegree, key) ==
    IF scaleDegree < 1 \/ scaleDegree > 7 THEN "Non-diatonic"
    ELSE IF key.isMajor THEN majorFunctions[scaleDegree] ELSE minorFunctions[scaleDegree]

\* isChordDiatonic accepting the whole major family on degree 5 of a minor key
isChordDiatonicMajorFamily(rootNoteClass, chordQuality, key) ==
    LET scaleDegree == getScaleDegree(rootNoteClass, key)
    IN IF scaleDegree = -1 THEN FALSE
       ELSE IF key.isMajor
       THEN CASE scaleDegree \in {1, 4, 5} -> chordQuality \in {"maj", "7", "maj7", "9", "6", "add9"}
              [] scaleDegree \in {2, 3, 6} -> chordQuality \in {"m", "m7", "m9", "m6", "mMaj7"}
              [] scaleDegree = 7 -> chordQuality \in {"dim", "dim7", OSLASH \o "7"}
       ELSE CASE scaleDegree \in {1, 4, 5} ->
                    \/ chordQuality \in {"m", "m7", "m9", "m6", "mMaj7"}
                    \/ (scaleDegree = 5 /\ chordQuality \in {"maj", "7", "maj7", "9", "6", "add9"})
              [] scaleDegree \in {3, 6, 7} -> chordQuality \in {"maj", "7", "maj7", "9", "6", "add9"}
              [] scaleDegree = 2 -> chordQuality \in {"dim", "dim7", OSLASH \o "7"}

isChordDiatonic(rootNoteClass, chordQuality, key) ==
    LET scaleDegree == getScaleDegree(rootNoteClass, key)
    IN IF scaleDegree = -1 THEN FALSE
       ELSE IF key.isMajor
       THEN CASE scaleDegree \in {1, 4, 5} -> chordQuality \in {"maj", "7", "maj7", "9", "6", "add9"}
              [] scaleDegree \in {2, 3, 6} -> chordQuality \in {"m", "m7", "m9", "m6", "mMaj7"}
              [] scaleDegree = 7 -> chordQuality \in {"dim", "dim7", OSLASH \o "7"}
       ELSE CASE scaleDegree \in {1, 4, 5} ->
                    \/ chordQuality \in {"m", "m7", "m9", "m6", "mMaj7"}
                    \/ (scaleDegree = 5 /\ chordQuality \in {"maj", "7"})
              [] scaleDegree \in {3, 6, 7} -> chordQuality \in {"maj", "7", "maj7", "9", "6", "add9"}
              [] scaleDegree = 2 -> chordQuality \in {"dim", "dim7", OSLASH \o "7"}

majorScaleSteps == <<0, 2, 4, 5, 7, 9, 11>>
minorScaleSteps == <<0, 2, 3, 5, 7, 8, 10>>

\* the std::set diatonicNotes that findAccidentalNotes builds
diatonicNotes(key) ==
    IF key.isMajor
    THEN {CRem(key.tonic + majorScaleSteps[i], 12) : i \in 1..7}
    ELSE {CRem(key.tonic + 7, 12)} \cup {CRem(key.tonic + minorScaleSteps[i], 12) : i \in 1..7}

IsAccidental(note, key) == CRem(note, 12) \notin diatonicNotes(key)

\* findAccidentalNotes collecting the pitch classes in place of the notes
findAccidentalNotesAsClasses(notes, key) ==
    LET accidentals == SelectSeq(notes, LAMBDA note : IsAccidental(note, key))
    IN [i \in 1..Len(accidentals) |-> CRem(accidentals[i], 12)]

findAccidentalNotes(notes, key) ==
    SelectSeq(notes, LAMBDA note : IsAccidental(note, key))

---------------------------------------------------------------------------
(* ChordAnalyzer *)

Min(S) == CHOOSE x \in S : \A y \in S : x <= y

\* std::vector<int>(set.begin(), set.end()): the elements in ascending order
RECURSIVE SetToVector(_)
SetToVector(S) ==
    IF S = {} THEN <<>> ELSE <<Min(S)>> \o SetToVector(S \ {Min(S)})

\* std::sort of a vector of ints (a vector already in order is left as it is)
Sort(v) ==
    IF \A i \in 1..(Len(v) - 1) : v[i] <= v[i + 1] THEN v
    ELSE SortSeq(v, LAMBDA a, b : a < b)

\* analyzeInterval with the difference reduced to one octave before the switch
analyzeIntervalReduced(note1, note2, key) ==
    LET interval == CRem(note2 - note1, 12)
        rootNote == midiNoteToNoteNameInKey(note1, key)
        labels == <<"minor 2nd", "major 2nd", "minor 3rd", "major 3rd", "perfect 4th",
                    "tritone", "perfect 5th", "minor 6th", "major 6th", "minor 7th",
                    "major 7th">>
    IN IF interval \in 1..11 THEN rootNote \o " " \o labels[interval]
       ELSE rootNote \o " +" \o Number(interval) \o " semitones"

analyzeInterval(note1, note2, key) ==
    LET interval == note2 - note1
        rootNote == midiNoteToNoteNameInKey(note1, key)
    IN CASE interval = 1 -> rootNote \o " minor 2nd"
         [] interval = 2 -> rootNote \o " major 2nd"
         [] interval = 3 -> rootNote \o " minor 3rd"
         [] interval = 4 -> rootNote \o " major 3rd"
         [] interval = 5 -> rootNote \o " perfect 4th"
         [] interval = 6 -> rootNote \o " tritone"
         [] interval = 7 -> rootNote \o " perfect 5th"
         [] interval = 8 -> rootNote \o " minor 6th"
         [] interval = 9 -> rootNote \o " major 6th"
         [] interval = 10 -> rootNote \o " minor 7th"
         [] interval = 11 -> rootNote \o " major 7th"
         [] interval = 12 -> rootNote \o " octave"
         [] OTHER -> rootNote \o " +" \o Number(interval) \o " semitones"

\* the local chordIntervals of matchChordPattern for the i-th pattern of the
\* loop: pattern.second, copied and sorted
chordIntervals == [i \in 1..Len(chordPatterns) |-> Sort(chordPatterns[i][2])]

\* matchChordPattern comparing the intervals and the pattern as sets
matchChordPatternAsSets(intervals) ==
    LET matching == {i \in 1..Len(chordPatterns) : Range(chordIntervals[i]) = Range(intervals)}
    IN IF matching = {} THEN "" ELSE chordPatterns[Min(matching)][1]

\* the first pattern of the loop whose sorted intervals have the size and the
\* elements of intervals
matchChordPattern(intervals) ==
    LET matching == {i \in 1..Len(chordPatterns) : chordIntervals[i] = intervals}
    IN IF matching = {} THEN "" ELSE chordPatterns[Min(matching)][1]

\* the intervals left as differences of note numbers, with no reduction to one octave
reducedIntervalsRaw(notes, rootNote) ==
    Sort([i \in 1..Len(notes) |->
            LET interval == notes[i] - rootNote
            IN IF interval < 0 THEN interval + 12 ELSE interval])

\* the sorted vector of intervals that findBestChordInterpretation builds for one candidate root
reducedIntervals(notes, rootNote) ==
    Sort([i \in 1..Len(notes) |->
            LET interval == CRem(notes[i] - rootNote, 12)
            IN IF interval < 0 THEN interval + 12 ELSE interval])

\* the position of the last candidate root that matches, from position i on
lastMatchingRoot(notes, i) ==
    LET matching == {j \in i..Len(notes) : matchChordPattern(reducedIntervals(notes, notes[j])) # ""}
    IN IF matching = {} THEN 0 ELSE CHOOSE j \in matching : \A k \in matching : k <= j

\* the position in notes of the first candidate root that matches a pattern,
\* looking from position i on; 0 when the loop ends without a match
RECURSIVE firstMatchingRoot(_, _)
firstMatchingRoot(notes, i) ==
    IF i > Len(notes) THEN 0
    ELSE IF matchChordPattern(reducedIntervals(notes, notes[i])) # "" THEN i
    ELSE firstMatchingRoot(notes, i + 1)

\* the body of the loop handing out the root one octave above the candidate
interpretationAtOctaveUp(notes, key, m) ==
    IF m = 0
    THEN [chordName |-> "", outChordQuality |-> "", outRootNote |-> notes[1]]
    ELSE LET chordQuality == matchChordPattern(reducedIntervals(notes, notes[m]))
             chordName == midiNoteToNoteNameInKey(notes[m], key) \o " " \o chordQuality
         IN [chordName |-> IF notes[1] # notes[m]
                           THEN chordName \o "/" \o midiNoteToNoteNameInKey(notes[1], key)
                           ELSE chordName,
             outChordQuality |-> chordQuality,
             outRootNote |-> notes[m] + 12]

\* the body of the loop of findBestChordInterpretation for the candidate root
\* at position m, which matches; the result when m = 0 (no candidate matched)
interpretationAt(notes, key, m) ==
    IF m = 0
    THEN [chordName |-> "", outChordQuality |-> "", outRootNote |-> notes[1]]
    ELSE LET chordQuality == matchChordPattern(reducedIntervals(notes, notes[m]))
             chordName == midiNoteToNoteNameInKey(notes[m], key) \o " " \o chordQuality
         IN [chordName |-> IF notes[1] # notes[m]
                           THEN chordName \o "/" \o midiNoteToNoteNameInKey(notes[1], key)
                           ELSE chordName,
             outChordQuality |-> chordQuality,
             outRootNote |-> notes[m]]

\* the returned chord name together with the two out-parameters
findBestChordInterpretation(notes, key) ==
    interpretationAt(notes, key, firstMatchingRoot(notes, 1))

\* the seventh test as a comparison with the three labels "7", "dim7", "o-slash 7"
IsSeventhQualityExact(chordQuality) ==
    chordQuality = "7" \/ chordQuality = "dim7" \/ chordQuality = OSLASH \o "7"

\* chordQuality.find("7") != npos || chordQuality == "dim7" || chordQuality == "ø7"
IsSeventhQuality(chordQuality) ==
    Contains(chordQuality, "7") \/ chordQuality = "dim7" \/ chordQuality = OSLASH \o "7"

\* calculateInversionFigure measuring the interval from the bass up to the root
calculateInversionFigureDownward(chordQuality, bassNote, rootNote) ==
    IF bassNote = rootNote
    THEN IF chordQuality = "dim7" THEN DEG \o SUP7
         ELSE IF chordQuality = OSLASH \o "7" THEN OSLASH \o SUP7
         ELSE IF Contains(chordQuality, "7") THEN SUP7
         ELSE ""
    ELSE LET rootClass == CRem(rootNote, 12)
             bassClass == CRem(bassNote, 12)
             bassInterval == CRem(rootClass - bassClass + 12, 12)
         IN IF bassInterval = 3 \/ bassInterval = 4
            THEN IF IsSeventhQuality(chordQuality) THEN SUP6 \o SUB5 ELSE SUP6
            ELSE IF bassInterval = 7 \/ (bassInterval = 6 /\ chordQuality = "dim")
            THEN IF IsSeventhQuality(chordQuality) THEN SUB4 \o SUP3 ELSE SUB6 \o SUB4
            ELSE IF bassInterval \in {10, 11, 9} /\ IsSeventhQuality(chordQuality)
            THEN SUB4 \o SUB2
            ELSE ""

calculateInversionFigure(chordQuality, bassNote, rootNote) ==
    IF bassNote = rootNote
    THEN IF chordQuality = "dim7" THEN DEG \o SUP7
         ELSE IF chordQuality = OSLASH \o "7" THEN OSLASH \o SUP7
         ELSE IF Contains(chordQuality, "7") THEN SUP7
         ELSE ""
    ELSE LET rootClass == CRem(rootNote, 12)
             bassClass == CRem(bassNote, 12)
             bassInterval == CRem(bassClass - rootClass + 12, 12)
         IN IF bassInterval = 3 \/ bassInterval = 4
            THEN IF IsSeventhQuality(chordQuality) THEN SUP6 \o SUB5 ELSE SUP6
            ELSE IF bassInterval = 7 \/ (bassInterval = 6 /\ chordQuality = "dim")
            THEN IF IsSeventhQuality(chordQuality) THEN SUB4 \o SUP3 ELSE SUB6 \o SUB4
            ELSE IF bassInterval \in {10, 11, 9} /\ IsSeventhQuality(chordQuality)
            THEN SUB4 \o SUB2
            ELSE ""

majorRomanNumerals == <<"I", "ii", "iii", "IV", "V", "vi", "vii" \o DEG>>
minorRomanNumerals == <<"i", "ii" \o DEG, FLAT \o "III", "iv", "v", FLAT \o "VI", FLAT \o "VII">>

\* detectSecondaryDominant looking a perfect fourth above each degree
detectSecondaryDominantFourth(rootNoteClass, chordQuality, key) ==
    IF ~(chordQuality = "maj" \/ chordQuality = "7" \/ chordQuality = "9" \/ chordQuality = "maj7")
    THEN ""
    ELSE LET scaleNote(degree) ==
                 IF key.isMajor THEN CRem(key.tonic + majorScaleSteps[degree], 12)
                                ELSE CRem(key.tonic + minorScaleSteps[degree], 12)
             found == {degree \in 1..7 : rootNoteClass = CRem(scaleNote(degree) + 5, 12)}
         IN IF found = {} THEN ""
            ELSE IF key.isMajor THEN majorRomanNumerals[Min(found)]
                                ELSE minorRomanNumerals[Min(found)]

detectSecondaryDominant(rootNoteClass, chordQuality, key) ==
    IF ~(chordQuality = "maj" \/ chordQuality = "7" \/ chordQuality = "9" \/ chordQuality = "maj7")
    THEN ""
    ELSE LET scaleNote(degree) ==
                 IF key.isMajor THEN CRem(key.tonic + majorScaleSteps[degree], 12)
                                ELSE CRem(key.tonic + minorScaleSteps[degree], 12)
             found == {degree \in 1..7 : rootNoteClass = CRem(scaleNote(degree) + 7, 12)}
         IN IF found = {} THEN ""
            ELSE IF key.isMajor THEN majorRomanNumerals[Min(found)]
                                ELSE minorRomanNumerals[Min(found)]

\* getRomanNumeralForDiatonicChord with the half-diminished tests inverted
getRomanNumeralForDiatonicChordInverted(scaleDegree, chordQuality, key) ==
    IF scaleDegree < 1 \/ scaleDegree > 7 THEN "?"
    ELSE IF key.isMajor
    THEN IF scaleDegree = 7
         THEN (IF chordQuality # OSLASH \o "7" THEN "vii" ELSE "vii" \o DEG)
         ELSE majorRomanNumerals[scaleDegree]
    ELSE IF scaleDegree = 2
         THEN (IF chordQuality # OSLASH \o "7" THEN "ii" ELSE "ii" \o DEG)
         ELSE IF scaleDegree = 5 /\ (chordQuality = "maj" \/ chordQuality = "7") THEN "V"
         ELSE minorRomanNumerals[scaleDegree]

getRomanNumeralForDiatonicChord(scaleDegree, chordQuality, key) ==
    IF scaleDegree < 1 \/ scaleDegree > 7 THEN "?"
    ELSE IF key.isMajor
    THEN IF scaleDegree = 7
         THEN (IF chordQuality = OSLASH \o "7" THEN "vii" ELSE "vii" \o DEG)
         ELSE majorRomanNumerals[scaleDegree]
    ELSE IF scaleDegree = 2
         THEN (IF chordQuality = OSLASH \o "7" THEN "ii" ELSE "ii" \o DEG)
         ELSE IF scaleDegree = 5 /\ (chordQuality = "maj" \/ chordQuality = "7") THEN "V"
         ELSE minorRomanNumerals[scaleDegree]

\* An int member of a struct is modelled as <<>> while nothing has been
\* assigned to it and as <<v>> once v has been.  Reading a member that was
\* never assigned yields an indeterminate value.
ReadInt(member, indeterminate) ==
    IF member = <<>> THEN indeterminate ELSE member[1]

\* the unmatched branch assigning the label only
clusterFallbackNameOnly(analysis, size) ==
    [analysis EXCEPT !.chordName = "Cluster (" \o Number(size) \o " notes)"]

\* the branch of analyzeChord taken when no quality was matched: what it
\* assigns to the local ChordAnalysis before returning it
clusterFallback(analysis, size) ==
    [analysis EXCEPT !.chordName = "Cluster (" \o Number(size) \o " notes)",
                     !.romanNumeral = "?",
                     !.functionName = ""]

\* the first statements of analyzeChord leaving isNonDiatonic false whatever
\* the accidentals
initialAnalysisIgnoringAccidentals(notes, key) ==
    [chordName |-> "", romanNumeral |-> "", functionName |-> "",
     isNonDiatonic |-> FALSE,
     isSecondaryDominant |-> FALSE,
     secondaryTarget |-> "", inversionFigure |-> "",
     accidentalNotes |-> findAccidentalNotes(notes, key),
     bassNote |-> notes[1], rootNote |-> <<>>]

\* the local ChordAnalysis of analyzeChord after its first statements.  It is
\* default-constructed: the QStrings and the vector are empty, the int and bool
\* members are not initialised.  bassNote, isNonDiatonic, isSecondaryDominant
\* and accidentalNotes are assigned before anything reads them; rootNote is
\* assigned on the matched path only.
initialAnalysis(notes, key) ==
    LET accidentalNotes == findAccidentalNotes(notes, key)
    IN [chordName |-> "", romanNumeral |-> "", functionName |-> "",
        isNonDiatonic |-> (accidentalNotes # <<>>),
        isSecondaryDominant |-> FALSE,
        secondaryTarget |-> "", inversionFigure |-> "",
        accidentalNotes |-> accidentalNotes,
        bassNote |-> notes[1], rootNote |-> <<>>]

\* the rest of analyzeChord once a quality was matched: a1 is the local
\* ChordAnalysis so far, best what findBestChordInterpretation gave
matchedAnalysis(a1, best, key) ==
    LET bestChordQuality == best.outChordQuality
        inversionFigure == calculateInversionFigure(bestChordQuality, a1.bassNote, best.outRootNote)
        a2 == [a1 EXCEPT !.rootNote = <<best.outRootNote>>,
                         !.chordName = best.chordName,
                         !.inversionFigure = inversionFigure]
        rootNoteClass == CRem(best.outRootNote, 12)
        isDiatonic == isChordDiatonic(rootNoteClass, bestChordQuality, key)
        scaleDegree == getScaleDegree(rootNoteClass, key)
        baseRoman == getRomanNumeralForDiatonicChord(scaleDegree, "", key)
        secondaryTarget == detectSecondaryDominant(rootNoteClass, bestChordQuality, key)
    IN IF ~isDiatonic \/ a1.isNonDiatonic
       THEN IF secondaryTarget # ""
            THEN [a2 EXCEPT !.isNonDiatonic = TRUE,
                            !.isSecondaryDominant = TRUE,
                            !.secondaryTarget = secondaryTarget,
                            !.romanNumeral = "V" \o inversionFigure \o "/" \o secondaryTarget,
                            !.functionName = "Secondary Dominant"]
            ELSE [a2 EXCEPT !.isNonDiatonic = TRUE,
                            !.romanNumeral = IF scaleDegree # -1
                                             THEN baseRoman \o inversionFigure
                                             ELSE "Non-diatonic" \o inversionFigure,
                            !.functionName = "Non-functional"]
       ELSE IF scaleDegree # -1
            THEN [a2 EXCEPT !.romanNumeral = baseRoman \o inversionFigure,
                            !.functionName = getFunctionName(scaleDegree, key)]
            ELSE a2

\* analyzeChord from the call of findBestChordInterpretation on, with its
\* locals: the ChordAnalysis object it is about to return and the two
\* out-parameters that findBestChordInterpretation filled in
analyzeChordFrom(a1, best, size, key) ==
    [analysis |-> IF best.outChordQuality = ""
                  THEN clusterFallback(a1, size)
                  ELSE matchedAnalysis(a1, best, key),
     bestChordQuality |-> best.outChordQuality,
     bestRootNote |-> best.outRootNote]

\* analyzeChord up to its return statement
analyzeChordFrame(notes, key) ==
    analyzeChordFrom(initialAnalysis(notes, key),
                     findBestChordInterpretation(notes, key), Len(notes), key)

\* the ChordAnalysis the caller receives: the object copied out, member by member
ReturnedAnalysis(object, indeterminate) ==
    [object EXCEPT !.rootNote = ReadInt(@, indeterminate)]

analyzeChord(notes, key, indeterminate) ==
    ReturnedAnalysis(analyzeChordFrame(notes, key).analysis, indeterminate)

\* the last two statements of analyzeNotes: the chord name of the analysis is
\* the returned text
returnChordName(frame) ==
    [text |-> frame.analysis.chordName, chord |-> <<frame>>]

\* analyzeNotes naming a single note in place of returning the empty string
analyzeNotesFrameNamingSingles(activeNotes, key) ==
    IF activeNotes = {}
    THEN [text |-> "", chord |-> <<>>]
    ELSE LET notes == Sort(SetToVector(activeNotes))
         IN IF Len(notes) = 1
            THEN [text |-> midiNoteToNoteNameInKey(notes[1], key), chord |-> <<>>]
            ELSE IF Len(notes) = 2
            THEN [text |-> analyzeInterval(notes[1], notes[2], key), chord |-> <<>>]
            ELSE returnChordName(analyzeChordFrame(notes, key))

\* analyzeNotes up to its return statement: the display string and, as a
\* sequence that is empty when analyzeChord is not reached, the frame of its
\* call of analyzeChord
analyzeNotesFrame(activeNotes, key) ==
    IF activeNotes = {}
    THEN [text |-> "", chord |-> <<>>]
    ELSE LET notes == Sort(SetToVector(activeNotes))
         IN IF Len(notes) = 1
            THEN [text |-> "", chord |-> <<>>]
            ELSE IF Len(notes) = 2
            THEN [text |-> analyzeInterval(notes[1], notes[2], key), chord |-> <<>>]
            ELSE returnChordName(analyzeChordFrame(notes, key))

analyzeNotes(activeNotes, key) == analyzeNotesFrame(activeNotes, key).text

---------------------------------------------------------------------------
(* MidiManager.  RtMidiIn is the library's input object: midiIn is <<>>    *)
(* for a null pointer and <<r>> for an object r with its port and callback *)
(* state.  The calls into RtMidi are taken to succeed (no RtMidiError).    *)
(* The life of the object is modelled from its construction up to, and not *)
(* including, its destruction.                                             *)

\* the raw messages a keyboard sends: nothing, note-on, note-off (status, note, velocity)
MidiData == {<<>>, <<144, 60, 100>>, <<128, 60, 0>>}

\* the names of the ports the system may offer
PortNames == {"Midi Through Port-0", "USB Keyboard"}

\* the members after the constructor: setupMidi has made the RtMidiIn object,
\* midiProcessTimer runs, deviceCheckTimer does not run yet
MidiManagerConstructed ==
    [midiIn |-> <<[portOpen |-> FALSE, callback |-> FALSE]>>,
     midiConnected |-> FALSE,
     lastConnectedDevice |-> "",
     isDestroying |-> FALSE,
     activeNotes |-> {},
     midiMessageQueue |-> <<>>,
     midiQueueMutex |-> "free",
     deviceCheckTimer |-> FALSE,
     midiProcessTimer |-> TRUE]

\* the loop of checkForMidiDevices over the ports: is there a port that is
\* not a "Midi Through" port
deviceFound(portNames) ==
    \E i \in 1..Len(portNames) : ~Contains(portNames[i], "Midi Through")

\* the loop of attemptMidiConnection over the ports: the first port with a
\* preferred name, else the first port that is not "Midi Through", else 0
targetPort(portNames) ==
    LET preferred == {i \in 1..Len(portNames) :
                         \/ Contains(portNames[i], "Recital Play")
                         \/ Contains(portNames[i], "Keyboard")
                         \/ Contains(portNames[i], "Piano")}
        real == {i \in 1..Len(portNames) : ~Contains(portNames[i], "Midi Through")}
    IN IF preferred # {} THEN Min(preferred)
       ELSE IF real # {} THEN Min(real)
       ELSE 0

\* attemptMidiConnection: the members and the signals emitted
attemptMidiConnection(m, portNames) ==
    IF m.midiIn = <<>> THEN [manager |-> m, signals |-> <<>>]
    ELSE IF Len(portNames) = 0 \/ targetPort(portNames) = 0
    THEN [manager |-> [m EXCEPT !.midiConnected = FALSE], signals |-> <<>>]
    ELSE [manager |-> [m EXCEPT !.midiIn = <<[portOpen |-> TRUE, callback |-> TRUE]>>,
                                !.midiConnected = TRUE,
                                !.lastConnectedDevice = portNames[targetPort(portNames)]],
          signals |-> <<"deviceConnected">>]

\* disconnectMidi after its first assignment (isDestroying = true): the port
\* is closed, midiConnected and activeNotes are reset, the RtMidiIn object is
\* destroyed, and deviceDisconnected is emitted when a device name is held
\* and isDestroying is false
disconnectMidiFrom(m) ==
    IF m.lastConnectedDevice # "" /\ ~m.isDestroying
    THEN [manager |-> [m EXCEPT !.midiIn = <<>>,
                                !.midiConnected = FALSE,
                                !.activeNotes = {},
                                !.lastConnectedDevice = ""],
          signals |-> <<"disconnectMidi", "deviceDisconnected">>]
    ELSE [manager |-> [m EXCEPT !.midiIn = <<>>,
                                !.midiConnected = FALSE,
                                !.activeNotes = {}],
          signals |-> <<"disconnectMidi">>]

\* disconnectMidi: the members and the signals emitted, its own call being
\* noted among the signals
disconnectMidi(m) == disconnectMidiFrom([m EXCEPT !.isDestroying = TRUE])

\* checkForMidiDevices: the members and the signals emitted
checkForMidiDevices(m, portNames) ==
    IF m.midiIn = <<>> THEN [manager |-> m, signals |-> <<>>]
    ELSE IF deviceFound(portNames) /\ ~m.midiConnected THEN attemptMidiConnection(m, portNames)
    ELSE IF ~deviceFound(portNames) /\ m.midiConnected THEN disconnectMidi(m)
    ELSE [manager |-> m, signals |-> <<>>]

\* parseMidiMessage
parseMidiMessage(data) ==
    IF Len(data) >= 3
    THEN LET status == data[1]
             velocity == data[3]
             isNoteOn == (status \div 16 = 9) /\ velocity > 0
             isNoteOff == (status \div 16 = 8) \/ ((status \div 16 = 9) /\ velocity = 0)
         IN [type |-> IF isNoteOn THEN "NoteOn" ELSE IF isNoteOff THEN "NoteOff" ELSE "Unknown",
             noteNumber |-> data[2], velocity |-> velocity, channel |-> status % 16]
    ELSE [type |-> "Unknown", noteNumber |-> 0, velocity |-> 0, channel |-> 0]

\* one pass of the loop of processPendingMidiMessages over msg: the active
\* notes after it
handledNotes(activeNotes, msg) ==
    IF msg.data = <<>> THEN activeNotes
    ELSE IF parseMidiMessage(msg.data).type = "NoteOn"
    THEN activeNotes \cup {parseMidiMessage(msg.data).noteNumber}
    ELSE IF parseMidiMessage(msg.data).type = "NoteOff"
    THEN activeNotes \ {parseMidiMessage(msg.data).noteNumber}
    ELSE activeNotes

\* and the noteEvent signals it emits
handledEvents(msg) ==
    IF msg.data # <<>> /\ parseMidiMessage(msg.data).type \in {"NoteOn", "NoteOff"}
    THEN <<parseMidiMessage(msg.data)>>
    ELSE <<>>

---------------------------------------------------------------------------
(* The engine as a state machine: one call of a public or helper operation *)
(* on a constructed engine, and the same call made once more               *)

\* values an uninitialised int member may hold
IndeterminateInt == {-1, 60}

RECURSIVE SetsUpTo(_, _)
SetsUpTo(U, n) ==
    IF n = 0 THEN {{}}
    ELSE LET P == SetsUpTo(U, n - 1) IN P \cup {s \cup {x} : s \in P, x \in U}

RECURSIVE SeqsUpTo(_, _)
SeqsUpTo(U, n) ==
    IF n = 0 THEN {<<>>}
    ELSE LET P == SeqsUpTo(U, n - 1) IN P \cup {Append(s, x) : s \in P, x \in U}

NoteSets ==
    SetsUpTo(NoteLo..NoteHi, MaxNotes)
        \cup {s \in SetsUpTo(LargeLo..LargeHi, MaxLargeNotes) : Cardinality(s) > MaxNotes}
AccidentalInputs == SeqsUpTo(AccLo..AccHi, MaxAccLen)
KeyIndices == (0 - IndexSlack)..(29 + IndexSlack)
IntervalVectors ==
    {v \in SeqsUpTo(0..11, MaxIntervals) : \A i \in 1..(Len(v) - 1) : v[i] <= v[i + 1]}
Qualities == {ChordPatternInsertions[i][1] : i \in 1..Len(ChordPatternInsertions)}

\* The operation o run on the arguments a, up to its return.  For analyzeNotes
\* the record keeps, beside the returned text, the locals of analyzeChord.
Run(o, a) ==
    CASE o = "analyzeNotes" -> analyzeNotesFrame(a.activeNotes, a.key)
      [] o = "calculateInversionFigure" -> calculateInversionFigure(a.chordQuality, a.bassNote, a.rootNote)
      [] o = "findAccidentalNotes" -> findAccidentalNotes(a.notes, a.key)
      [] o = "getKeySignature" -> getKeySignature(a.index)
      [] o = "matchChordPattern" -> matchChordPattern(a.intervals)
      [] o = "isChordDiatonic" -> isChordDiatonic(a.rootNoteClass, a.chordQuality, a.key)
      [] o = "getScaleDegree" -> getScaleDegree(a.noteClass, a.key)
      [] o = "midiNoteToNoteNameInKey" -> midiNoteToNoteNameInKey(a.midiNote, a.key)

\* what the caller sees of it, members that were never assigned read as indeterminate
Observed(o, r, indeterminate) ==
    IF o = "analyzeNotes" /\ r.chord # <<>>
    THEN [r EXCEPT !.chord[1].analysis = ReturnedAnalysis(@, indeterminate)]
    ELSE r

Returns(o, a) ==
    LET r == Run(o, a)
    IN \E indeterminate \in IndeterminateInt : ret' = Observed(o, r, indeterminate)

Call(o, a) ==
    /\ pc' = "returned"
    /\ op' = o
    /\ args' = a
    /\ Returns(o, a)
    /\ UNCHANGED keySignatures
    /\ UNCHANGED midiVars

Init ==
    /\ keySignatures = initializeKeySignatures
    /\ pc = "idle"
    /\ op = "none"
    /\ args = <<>>
    /\ ret = <<>>
    /\ manager = MidiManagerConstructed
    /\ driver = [pc |-> "idle", message |-> <<>>]
    /\ mainThread = [pc |-> "idle", messages |-> <<>>]
    /\ ports = [names |-> <<>>, changes |-> 0]
    /\ history = [arrived |-> 0, pushed |-> <<>>, handled |-> <<>>, noteEvents |-> <<>>,
                  signals |-> <<>>, polled |-> <<>>]

AnalyzeNotes ==
    /\ pc = "idle"
    /\ \E activeNotes \in NoteSets, k \in 1..Len(keySignatures) :
           Call("analyzeNotes", [activeNotes |-> activeNotes, key |-> keySignatures[k]])

CalculateInversionFigure ==
    /\ pc = "idle"
    /\ \E chordQuality \in Qualities, bassNote \in FigLo..FigHi, rootNote \in FigLo..FigHi :
           Call("calculateInversionFigure",
                [chordQuality |-> chordQuality, bassNote |-> bassNote, rootNote |-> rootNote])

FindAccidentalNotes ==
    /\ pc = "idle"
    /\ \E notes \in AccidentalInputs, k \in 1..Len(keySignatures) :
           Call("findAccidentalNotes", [notes |-> notes, key |-> keySignatures[k]])

GetKeySignature ==
    /\ pc = "idle"
    /\ \E index \in KeyIndices : Call("getKeySignature", [index |-> index])

MatchChordPattern ==
    /\ pc = "idle"
    /\ \E intervals \in IntervalVectors : Call("matchChordPattern", [intervals |-> intervals])

IsChordDiatonic ==
    /\ pc = "idle"
    /\ \E rootNoteClass \in 0..11, chordQuality \in Qualities, k \in 1..Len(keySignatures) :
           Call("isChordDiatonic", [rootNoteClass |-> rootNoteClass,
                                    chordQuality |-> chordQuality, key |-> keySignatures[k]])

GetScaleDegree ==
    /\ pc = "idle"
    /\ \E noteClass \in 0..11, k \in 1..Len(keySignatures) :
           Call("getScaleDegree", [noteClass |-> noteClass, key |-> keySignatures[k]])

MidiNoteToNoteNameInKey ==
    /\ pc = "idle"
    /\ \E midiNote \in MidiLo..MidiHi, k \in 1..Len(keySignatures) :
           Call("midiNoteToNoteNameInKey", [midiNote |-> midiNote, key |-> keySignatures[k]])

\* the same operation called again with the same arguments
CallAgain ==
    /\ pc = "returned"
    /\ Returns(op, args)
    /\ UNCHANGED <<keySignatures, pc, op, args>>
    /\ UNCHANGED midiVars

Next ==
    \/ AnalyzeNotes
    \/ CalculateInversionFigure
    \/ FindAccidentalNotes
    \/ GetKeySignature
    \/ MatchChordPattern
    \/ IsChordDiatonic
    \/ GetScaleDegree
    \/ MidiNoteToNoteNameInKey

\* one call on the constructed engine
Spec == Init /\ [][Next]_vars

NextTwice ==
    \/ Next
    \/ CallAgain

\* one call, and then the same call any number of times more
SpecTwice == Init /\ [][NextTwice]_vars

---------------------------------------------------------------------------
(* MidiManager as a state machine: the GUI thread runs the slots           *)
(* checkForMidiDevices and processPendingMidiMessages and the call         *)
(* startDeviceMonitoring, one at a time; the driver thread runs            *)
(* midiCallback; the system adds and removes ports                         *)

PortLists ==
    {p \in SeqsUpTo(PortNames, MaxPorts) : \A i, j \in 1..Len(p) : p[i] = p[j] => i = j}

\* the GUI thread has run checkForMidiDevices
Polled(result) ==
    /\ manager' = result.manager
    /\ history' = [history EXCEPT !.signals = @ \o result.signals,
                                  !.polled = <<deviceFound(ports.names)>>]
    /\ UNCHANGED <<driver, mainThread, ports>>
    /\ UNCHANGED engineVars

\* a port appears or disappears
PortsChange ==
    /\ ports.changes < MaxPortChanges
    /\ \E names \in PortLists :
          /\ names # ports.names
          /\ ports' = [names |-> names, changes |-> ports.changes + 1]
    /\ UNCHANGED <<manager, driver, mainThread, history>>
    /\ UNCHANGED engineVars

\* startDeviceMonitoring: the timer is started and the first check made
StartDeviceMonitoring ==
    /\ mainThread.pc = "idle"
    /\ ~manager.deviceCheckTimer
    /\ Polled(checkForMidiDevices([manager EXCEPT !.deviceCheckTimer = TRUE], ports.names))

\* deviceCheckTimer has timed out
CheckForMidiDevices ==
    /\ mainThread.pc = "idle"
    /\ manager.deviceCheckTimer
    /\ Polled(checkForMidiDevices(manager, ports.names))

\* the driver calls midiCallback with a message of the connected device: the
\* first test of isDestroying
MidiCallbackEnter ==
    /\ driver.pc = "idle"
    /\ manager.midiIn # <<>>
    /\ manager.midiIn[1].portOpen /\ manager.midiIn[1].callback
    /\ manager.lastConnectedDevice \in Range(ports.names)
    /\ history.arrived < MaxMessages
    /\ \E data \in MidiData :
          driver' = IF manager.isDestroying
                    THEN [pc |-> "idle", message |-> <<>>]
                    ELSE [pc |-> "lock",
                          message |-> <<[timeStamp |-> history.arrived + 1, data |-> data]>>]
    /\ history' = [history EXCEPT !.arrived = @ + 1]
    /\ UNCHANGED <<manager, mainThread, ports>>
    /\ UNCHANGED engineVars

\* midiCallback entering its critical section without waiting for the mutex
MidiCallbackLockNoWait ==
    /\ driver.pc = "lock"
    /\ driver' = [driver EXCEPT !.pc = "push"]
    /\ UNCHANGED <<manager, mainThread, ports, history>>
    /\ UNCHANGED engineVars

\* QMutexLocker locker(&manager->midiQueueMutex)
MidiCallbackLock ==
    /\ driver.pc = "lock"
    /\ manager.midiQueueMutex = "free"
    /\ manager' = [manager EXCEPT !.midiQueueMutex = "driver"]
    /\ driver' = [driver EXCEPT !.pc = "push"]
    /\ UNCHANGED <<mainThread, ports, history>>
    /\ UNCHANGED engineVars

\* the second test of isDestroying and the push_back
MidiCallbackPush ==
    /\ driver.pc = "push"
    /\ IF manager.isDestroying
       THEN UNCHANGED <<manager, history>>
       ELSE /\ manager' = [manager EXCEPT !.midiMessageQueue = Append(@, driver.message[1])]
            /\ history' = [history EXCEPT !.pushed = Append(@, driver.message[1].timeStamp)]
    /\ driver' = [driver EXCEPT !.pc = "unlock"]
    /\ UNCHANGED <<mainThread, ports>>
    /\ UNCHANGED engineVars

\* the locker goes out of scope and midiCallback returns
MidiCallbackUnlock ==
    /\ driver.pc = "unlock"
    /\ manager' = [manager EXCEPT !.midiQueueMutex = "free"]
    /\ driver' = [pc |-> "idle", message |-> <<>>]
    /\ UNCHANGED <<mainThread, ports, history>>
    /\ UNCHANGED engineVars

\* midiProcessTimer has timed out: processPendingMidiMessages returns at once
\* when not connected, and goes on to its critical section otherwise
ProcessPendingBegin ==
    /\ mainThread.pc = "idle"
    /\ manager.midiProcessTimer
    /\ mainThread' = IF manager.midiConnected THEN [mainThread EXCEPT !.pc = "lock"] ELSE mainThread
    /\ UNCHANGED <<manager, driver, ports, history>>
    /\ UNCHANGED engineVars

\* QMutexLocker locker(&midiQueueMutex)
ProcessPendingLock ==
    /\ mainThread.pc = "lock"
    /\ manager.midiQueueMutex = "free"
    /\ manager' = [manager EXCEPT !.midiQueueMutex = "mainThread"]
    /\ mainThread' = [mainThread EXCEPT !.pc = "copy"]
    /\ UNCHANGED <<driver, ports, history>>
    /\ UNCHANGED engineVars

\* messages = midiMessageQueue
ProcessPendingCopy ==
    /\ mainThread.pc = "copy"
    /\ mainThread' = [pc |-> "clear", messages |-> manager.midiMessageQueue]
    /\ UNCHANGED <<manager, driver, ports, history>>
    /\ UNCHANGED engineVars

\* midiMessageQueue.clear()
ProcessPendingClear ==
    /\ mainThread.pc = "clear"
    /\ manager' = [manager EXCEPT !.midiMessageQueue = <<>>]
    /\ mainThread' = [mainThread EXCEPT !.pc = "unlock"]
    /\ UNCHANGED <<driver, ports, history>>
    /\ UNCHANGED engineVars

\* the locker goes out of scope
ProcessPendingUnlock ==
    /\ mainThread.pc = "unlock"
    /\ manager' = [manager EXCEPT !.midiQueueMutex = "free"]
    /\ mainThread' = [mainThread EXCEPT !.pc = "loop"]
    /\ UNCHANGED <<driver, ports, history>>
    /\ UNCHANGED engineVars

\* one pass of the loop over the local messages, or its end
ProcessPendingHandle ==
    /\ mainThread.pc = "loop"
    /\ IF mainThread.messages = <<>>
       THEN /\ mainThread' = [pc |-> "idle", messages |-> <<>>]
            /\ UNCHANGED <<manager, history>>
       ELSE /\ manager' = [manager EXCEPT
                              !.activeNotes = handledNotes(@, Head(mainThread.messages))]
            /\ history' = [history EXCEPT
                              !.handled = Append(@, Head(mainThread.messages).timeStamp),
                              !.noteEvents = @ \o handledEvents(Head(mainThread.messages))]
            /\ mainThread' = [mainThread EXCEPT !.messages = Tail(@)]
    /\ UNCHANGED <<driver, ports>>
    /\ UNCHANGED engineVars

NextMidi ==
    \/ PortsChange
    \/ StartDeviceMonitoring
    \/ CheckForMidiDevices
    \/ MidiCallbackEnter
    \/ MidiCallbackLock
    \/ MidiCallbackPush
    \/ MidiCallbackUnlock
    \/ ProcessPendingBegin
    \/ ProcessPendingLock
    \/ ProcessPendingCopy
    \/ ProcessPendingClear
    \/ ProcessPendingUnlock
    \/ ProcessPendingHandle

\* the constructed MidiManager with its two threads and the ports
SpecMidi == Init /\ [][NextMidi]_vars

---------------------------------------------------------------------------
(* Properties *)

Returned(o) == pc = "returned" /\ op = o

\* the ChordAnalysis a returned call of analyzeNotes on three or more notes got
\* from analyzeChord
Analysis == ret.chord[1].analysis

\* C1: for every key and every two notes a < b, analyzeNotes returns the name
\* of a in the key followed by the fixed label of b - a when b - a is in 1..12
\* and by " +<b - a> semitones", the difference unreduced, when b - a > 12
C1_IntervalLabel ==
    (Returned("analyzeNotes") /\ Cardinality(args.activeNotes) = 2) =>
        LET a == Min(args.activeNotes)
            b == CHOOSE n \in args.activeNotes : n # a
            labels == <<"minor 2nd", "major 2nd", "minor 3rd", "major 3rd",
                        "perfect 4th", "tritone", "perfect 5th", "minor 6th",
                        "major 6th", "minor 7th", "major 7th", "octave">>
            name == midiNoteToNoteNameInKey(a, args.key)
        IN /\ ret.chord = <<>>
           /\ ret.text = IF b - a <= 12 THEN name \o " " \o labels[b - a]
                         ELSE name \o " +" \o ToString(b - a) \o " semitones"

\* two notes more than an octave apart were analysed
C1_Witness ==
    /\ Returned("analyzeNotes")
    /\ args.key.name = "C Major"
    /\ args.activeNotes = {57, 72}
    /\ ret.text = "A3 +15 semitones"

\* C2: for every key, analyzeNotes returns the empty string, and analyses no
\* chord, when the set of active notes is empty or holds exactly one note
C2_EmptyOrSingle ==
    (Returned("analyzeNotes") /\ Cardinality(args.activeNotes) <= 1) =>
        (ret.text = "" /\ ret.chord = <<>>)

\* a single note was analysed
C2_Witness ==
    /\ Returned("analyzeNotes")
    /\ Cardinality(args.activeNotes) = 1
    /\ ret.text = ""

\* C3: in every major key, the root-position diatonic triad on degree d (maj
\* on 1, 4, 5; m on 2, 3, 6; dim on 7) gets the d-th numeral of I ii iii IV V
\* vi vii-degree, the d-th function name, and isNonDiatonic = false
C3_MajorDiatonicTriads ==
    (Returned("analyzeNotes") /\ args.key.isMajor /\ Cardinality(args.activeNotes) = 3) =>
        LET bassClass == Min(args.activeNotes) % 12
            classes == {n % 12 : n \in args.activeNotes}
            steps == <<0, 2, 4, 5, 7, 9, 11>>
            third == <<4, 3, 3, 4, 4, 3, 3>>
            fifth == <<7, 7, 7, 7, 7, 7, 6>>
            numerals == <<"I", "ii", "iii", "IV", "V", "vi", "vii" \o DEG>>
            functions == <<"Tonic", "Supertonic", "Mediant", "Subdominant",
                           "Dominant", "Submediant", "Leading Tone">>
        IN \A d \in 1..7 :
              LET r == (args.key.tonic + steps[d]) % 12
              IN (bassClass = r /\ classes = {r, (r + third[d]) % 12, (r + fifth[d]) % 12}) =>
                    /\ Analysis.romanNumeral = numerals[d]
                    /\ Analysis.functionName = functions[d]
                    /\ Analysis.isNonDiatonic = FALSE

\* the diminished triad on the seventh degree of C Major was analysed
C3_Witness ==
    /\ Returned("analyzeNotes")
    /\ args.key.name = "C Major"
    /\ args.activeNotes = {59, 62, 65}
    /\ Analysis.romanNumeral = "vii" \o DEG
    /\ Analysis.functionName = "Leading Tone"
    /\ Analysis.isNonDiatonic = FALSE

\* C4: in every key, a matched chord of quality maj, 7, 9 or maj7 that is
\* non-diatonic (by its quality or by its accidentals) and whose root lies a
\* fifth above degree d is a secondary dominant: secondaryTarget is the
\* numeral of d, romanNumeral is "V" + inversionFigure + "/" + secondaryTarget
\* and functionName is "Secondary Dominant"
C4_SecondaryDominant ==
    (Returned("analyzeNotes") /\ Cardinality(args.activeNotes) >= 3) =>
        LET key == args.key
            quality == ret.chord[1].bestChordQuality
            rootClass == ret.chord[1].bestRootNote % 12
            steps == IF key.isMajor THEN <<0, 2, 4, 5, 7, 9, 11>> ELSE <<0, 2, 3, 5, 7, 8, 10>>
            numerals == IF key.isMajor
                        THEN <<"I", "ii", "iii", "IV", "V", "vi", "vii" \o DEG>>
                        ELSE <<"i", "ii" \o DEG, FLAT \o "III", "iv", "v", FLAT \o "VI", FLAT \o "VII">>
            nonDiatonic == \/ ~isChordDiatonic(rootClass, quality, key)
                           \/ \E n \in args.activeNotes : (n - key.tonic) % 12 \notin Range(steps)
        IN (quality \in {"maj", "7", "9", "maj7"} /\ nonDiatonic) =>
              \A d \in 1..7 :
                 (rootClass = (key.tonic + steps[d] + 7) % 12) =>
                    /\ Analysis.isSecondaryDominant = TRUE
                    /\ Analysis.secondaryTarget = numerals[d]
                    /\ Analysis.romanNumeral = "V" \o Analysis.inversionFigure \o "/" \o numerals[d]
                    /\ Analysis.functionName = "Secondary Dominant"

\* the root-position A major triad was analysed in C Major
C4_Witness ==
    /\ Returned("analyzeNotes")
    /\ args.key.name = "C Major"
    /\ args.activeNotes = {57, 61, 64}
    /\ Analysis.isSecondaryDominant = TRUE
    /\ Analysis.secondaryTarget = "ii"
    /\ Analysis.romanNumeral = "V/ii"
    /\ Analysis.functionName = "Secondary Dominant"

C6_SeventhFigure ==
    (Returned("calculateInversionFigure") /\ Contains(args.chordQuality, "7")) =>
        LET above == (args.bassNote - args.rootNote) % 12
        IN /\ args.bassNote = args.rootNote =>
                 ret = IF args.chordQuality = "dim7" THEN DEG \o SUP7
                       ELSE IF args.chordQuality = OSLASH \o "7" THEN OSLASH \o SUP7
                       ELSE SUP7
           /\ (args.bassNote # args.rootNote /\ above \in {3, 4}) => ret = SUP6 \o SUB5
           /\ (args.bassNote # args.rootNote /\ above = 7) => ret = SUB4 \o SUP3
           /\ (args.bassNote # args.rootNote /\ above \in {9, 10, 11}) => ret = SUB4 \o SUB2

\* the figure of a dominant seventh on 60 with 70 in the bass was calculated
C6_Witness ==
    /\ Returned("calculateInversionFigure")
    /\ args = [chordQuality |-> "7", bassNote |-> 70, rootNote |-> 60]
    /\ ret = SUB4 \o SUB2

\* C7: in every major key, findAccidentalNotes returns exactly the input notes
\* whose pitch class is not tonic + one of 0 2 4 5 7 9 11 (mod 12), in input
\* order, nothing added
C7_MajorAccidentals ==
    (Returned("findAccidentalNotes") /\ args.key.isMajor) =>
        LET scale == {(args.key.tonic + s) % 12 : s \in {0, 2, 4, 5, 7, 9, 11}}
            outside(note) == note % 12 \notin scale
        IN ret = SelectSeq(args.notes, outside)

\* the notes 60, 63 were looked up in C Major
C7_Witness ==
    /\ Returned("findAccidentalNotes")
    /\ args.key.name = "C Major"
    /\ args.notes = <<60, 63>>
    /\ ret = <<63>>

\* C8: analyzeNotes and analyzeChord are deterministic: the same call made
\* again returns the same output, the matched quality and root included
C8_SameCallSameResult ==
    [][(Returned("analyzeNotes") /\ pc' = "returned") => ret' = ret]_vars

\* C9: for N >= 3 notes of which no candidate root matches a pattern,
\* analyzeChord returns chordName "Cluster (N notes)", romanNumeral "?",
\* functionName "" and isSecondaryDominant = false
C9_ClusterFallback ==
    (Returned("analyzeNotes") /\ Cardinality(args.activeNotes) >= 3) =>
        LET notes == SetToVector(args.activeNotes)
            unmatched == \A i \in 1..Len(notes) :
                            matchChordPattern(reducedIntervals(notes, notes[i])) = ""
        IN unmatched =>
              /\ Analysis.chordName = "Cluster (" \o ToString(Cardinality(args.activeNotes)) \o " notes)"
              /\ ret.text = Analysis.chordName
              /\ Analysis.romanNumeral = "?"
              /\ Analysis.functionName = ""
              /\ Analysis.isSecondaryDominant = FALSE

\* three adjacent semitones were analysed
C9_Witness ==
    /\ Returned("analyzeNotes")
    /\ args.activeNotes = {60, 61, 62}
    /\ ret.text = "Cluster (3 notes)"
    /\ Analysis.romanNumeral = "?"
    /\ Analysis.functionName = ""
    /\ Analysis.isSecondaryDominant = FALSE

\* C10: getKeySignature(index) returns the entry at index for index in 0..29
\* and entry 0 (C Major, tonic 0, major, no sharps, no flats) for any other
\* index, and leaves the table as it was built
C10_KeyIndexClamp ==
    Returned("getKeySignature") =>
        /\ keySignatures = initializeKeySignatures
        /\ ret = IF args.index \in 0..29
                 THEN initializeKeySignatures[args.index + 1]
                 ELSE [name |-> "C Major", sharps |-> <<>>, flats |-> <<>>,
                       tonic |-> 0, isMajor |-> TRUE]

\* an index one past the table was looked up
C10_Witness ==
    /\ Returned("getKeySignature")
    /\ args.index = 30
    /\ ret.name = "C Major"

\* the quality and the root that findBestChordInterpretation handed to a
\* returned call of analyzeNotes on three or more notes
MatchedQuality == ret.chord[1].bestChordQuality
MatchedRoot == ret.chord[1].bestRootNote

\* C11: for every set of three or more notes and every key, the matched
\* quality is never one of the qualities whose pattern holds an offset
\* above 11 (maj9, add9, m9, 9, 11, 13, 7 flat 9, 7#9, 7#11)
C11_ExtendedNeverMatched ==
    (Returned("analyzeNotes") /\ Cardinality(args.activeNotes) >= 3) =>
        MatchedQuality \notin {"maj9", "add9", "m9", "9", "11", "13",
                               "7" \o FLAT \o "9", "7#9", "7#11"}

\* the notes of an add9 chord (root, third, fifth, ninth) were analysed and
\* no quality was matched
C11_Witness ==
    /\ Returned("analyzeNotes")
    /\ args.activeNotes = {57, 61, 64, 71}
    /\ MatchedQuality = ""

\* C12 as stated: when the intervals equal those of more than one pattern,
\* matchChordPattern returns the label assigned first in
\* initializeChordPatterns; for 0 4 8 10 it returns "aug7"
C12_FirstInserted ==
    Returned("matchChordPattern") =>
        LET matching == {i \in 1..Len(ChordPatternInsertions) :
                            Sort(ChordPatternInsertions[i][2]) = args.intervals}
        IN /\ matching # {} => ret = ChordPatternInsertions[Min(matching)][1]
           /\ args.intervals = <<0, 4, 8, 10>> => ret = "aug7"

\* C12: when the intervals equal those of more than one pattern,
\* matchChordPattern returns the label that is least in the byte order of
\* std::string, the order in which the std::map holds its keys; for 0 4 8 10,
\* stored under "aug7" and "7#5", it returns "7#5"
C12_FirstInKeyOrder ==
    Returned("matchChordPattern") =>
        LET labels == {ChordPatternInsertions[i][1] : i \in
                          {j \in 1..Len(ChordPatternInsertions) :
                              Sort(ChordPatternInsertions[j][2]) = args.intervals}}
        IN /\ labels = {} => ret = ""
           /\ labels # {} =>
                 /\ ret \in labels
                 /\ \A other \in labels : other = ret \/ StringLess(ret, other)
           /\ args.intervals = <<0, 4, 8, 10>> => (labels = {"aug7", "7#5"} /\ ret = "7#5")

\* the intervals stored under two labels were matched
C12_Witness ==
    /\ Returned("matchChordPattern")
    /\ args.intervals = <<0, 4, 8, 10>>
    /\ ret = "7#5"

\* C13: for three or more notes of which some candidate root matches, the
\* chosen root is the lowest note among those whose reduced intervals equal
\* a pattern, in every key; 57 60 64 67 is an m7 chord on 57 and 60 64 67 69
\* a "6" chord on 60; the name ends in "/" + name of the lowest note exactly
\* when the chosen root is not the lowest note
C13_LowestMatchingRoot ==
    (Returned("analyzeNotes") /\ Cardinality(args.activeNotes) >= 3) =>
        LET notes == SetToVector(args.activeNotes)
            candidates == {n \in args.activeNotes :
                              matchChordPattern(reducedIntervals(notes, n)) # ""}
            name(n) == midiNoteToNoteNameInKey(n, args.key)
        IN /\ candidates # {} =>
                 /\ MatchedQuality # ""
                 /\ MatchedRoot = Min(candidates)
                 /\ ret.text = name(MatchedRoot) \o " " \o MatchedQuality \o
                                  (IF MatchedRoot # notes[1] THEN "/" \o name(notes[1]) ELSE "")
           /\ args.activeNotes = {57, 60, 64, 67} => (MatchedQuality = "m7" /\ MatchedRoot = 57)
           /\ args.activeNotes = {60, 64, 67, 69} => (MatchedQuality = "6" /\ MatchedRoot = 60)

\* a set that two candidate roots match (m7 on 57, "6" on 60) was analysed
C13_Witness ==
    /\ Returned("analyzeNotes")
    /\ args.key.name = "C Major"
    /\ args.activeNotes = {57, 60, 64, 67}
    /\ matchChordPattern(reducedIntervals(<<57, 60, 64, 67>>, 60)) = "6"
    /\ MatchedQuality = "m7"
    /\ MatchedRoot = 57
    /\ ret.text = "A3 m7"

\* C14: in every minor key, findAccidentalNotes permits the raised seventh:
\* a note of pitch class tonic + 11 (mod 12) is not returned, while the notes
\* of the other four pitch classes outside the natural minor scale are
C14_MinorRaisedSeventh ==
    (Returned("findAccidentalNotes") /\ ~args.key.isMajor) =>
        LET permitted == {(args.key.tonic + s) % 12 : s \in {0, 2, 3, 5, 7, 8, 10, 11}}
            outside(note) == note % 12 \notin permitted
        IN ret = SelectSeq(args.notes, outside)

\* C15: in every minor key, the major triad or dominant seventh chord on
\* scale degree 5 (root tonic + 7) is diatonic: romanNumeral is "V" +
\* inversionFigure, functionName is "Dominant", isNonDiatonic and
\* isSecondaryDominant are false
C15_MinorMajorDominant ==
    (Returned("analyzeNotes") /\ Cardinality(args.activeNotes) >= 3 /\ ~args.key.isMajor) =>
        ((MatchedQuality \in {"maj", "7"} /\ MatchedRoot % 12 = (args.key.tonic + 7) % 12) =>
            /\ Analysis.romanNumeral = "V" \o Analysis.inversionFigure
            /\ Analysis.functionName = "Dominant"
            /\ Analysis.isNonDiatonic = FALSE
            /\ Analysis.isSecondaryDominant = FALSE)

\* C16 as stated: isChordDiatonic is true exactly when the root has a scale
\* degree d and the quality is of the family expected at d, degree 5 of a
\* minor key accepting every major-family quality beside the minor family
C16_DiatonicFamilies ==
    Returned("isChordDiatonic") =>
        LET major == {"maj", "7", "maj7", "9", "6", "add9"}
            minor == {"m", "m7", "m9", "m6", "mMaj7"}
            diminished == {"dim", "dim7", OSLASH \o "7"}
            steps == IF args.key.isMajor THEN <<0, 2, 4, 5, 7, 9, 11>> ELSE <<0, 2, 3, 5, 7, 8, 10>>
            degrees == {d \in 1..7 : (args.key.tonic + steps[d]) % 12 = args.rootNoteClass}
            expected(d) == IF args.key.isMajor
                           THEN (IF d \in {1, 4, 5} THEN major
                                 ELSE IF d \in {2, 3, 6} THEN minor ELSE diminished)
                           ELSE (IF d = 5 THEN minor \cup major
                                 ELSE IF d \in {1, 4} THEN minor
                                 ELSE IF d \in {3, 6, 7} THEN major ELSE diminished)
        IN ret = (\E d \in degrees : args.chordQuality \in expected(d))

\* C16: isChordDiatonic is true exactly when the root has a scale degree d
\* and the quality is of the family expected at d (major family at major
\* 1/4/5 and minor 3/6/7, minor family at major 2/3/6 and minor 1/4/5,
\* diminished family at major 7 and minor 2), degree 5 of a minor key
\* accepting beside the minor family the two qualities "maj" and "7" only;
\* it is false when the root is outside the scale
C16_DiatonicFamiliesMajSeventh ==
    Returned("isChordDiatonic") =>
        LET major == {"maj", "7", "maj7", "9", "6", "add9"}
            minor == {"m", "m7", "m9", "m6", "mMaj7"}
            diminished == {"dim", "dim7", OSLASH \o "7"}
            steps == IF args.key.isMajor THEN <<0, 2, 4, 5, 7, 9, 11>> ELSE <<0, 2, 3, 5, 7, 8, 10>>
            degrees == {d \in 1..7 : (args.key.tonic + steps[d]) % 12 = args.rootNoteClass}
            expected(d) == IF args.key.isMajor
                           THEN (IF d \in {1, 4, 5} THEN major
                                 ELSE IF d \in {2, 3, 6} THEN minor ELSE diminished)
                           ELSE (IF d = 5 THEN minor \cup {"maj", "7"}
                                 ELSE IF d \in {1, 4} THEN minor
                                 ELSE IF d \in {3, 6, 7} THEN major ELSE diminished)
        IN ret = (\E d \in degrees : args.chordQuality \in expected(d))

\* the dominant seventh on degree 5 of A minor was found diatonic
C16_Witness ==
    /\ Returned("isChordDiatonic")
    /\ args.key.name = "A minor"
    /\ args.rootNoteClass = 4
    /\ args.chordQuality = "7"
    /\ ret = TRUE

\* C17: a chord is reported as a secondary dominant only when its root is a
\* fifth above a scale degree other than the tonic: isSecondaryDominant
\* implies that secondaryTarget is neither "I" nor "i" and that romanNumeral
\* does not end in "/I" or "/i"
C17_TargetNotTonic ==
    (Returned("analyzeNotes") /\ Cardinality(args.activeNotes) >= 3) =>
        (Analysis.isSecondaryDominant =>
            /\ Analysis.secondaryTarget \notin {"I", "i"}
            /\ Analysis.romanNumeral \notin {"V" \o Analysis.inversionFigure \o "/I",
                                             "V" \o Analysis.inversionFigure \o "/i"}
            /\ MatchedRoot % 12 # (args.key.tonic + 7) % 12)

\* C18: the sharps and the flats of a key influence the note names only: the
\* two are disjoint in every entry of the table, and for two keys of the same
\* tonic and mode analyzeChord returns the same matched quality, rootNote,
\* bassNote, accidentalNotes, isNonDiatonic, isSecondaryDominant,
\* secondaryTarget, inversionFigure, romanNumeral and functionName on the
\* same notes, whatever each of the two calls returns
C18_SpellingOnly ==
    (Returned("analyzeNotes") /\ Cardinality(args.activeNotes) >= 3) =>
        /\ \A k \in 1..Len(keySignatures) :
              Range(keySignatures[k].sharps) \cap Range(keySignatures[k].flats) = {}
        /\ \A k \in 1..Len(keySignatures) :
              (/\ keySignatures[k].tonic = args.key.tonic
               /\ keySignatures[k].isMajor = args.key.isMajor
               /\ keySignatures[k] # args.key) =>
                  \A indeterminate \in IndeterminateInt :
                     \E other \in {analyzeChordFrame(SetToVector(args.activeNotes), keySignatures[k])} :
                        /\ other.bestChordQuality = MatchedQuality
                        /\ [ReturnedAnalysis(other.analysis, indeterminate) EXCEPT !.chordName = ""]
                              = [Analysis EXCEPT !.chordName = ""]

\* C19: for each candidate root the reduced intervals are collected into a
\* set before they are compared, so two notes of one pitch class count once:
\* the matched root is the lowest note whose set of reduced intervals is the
\* set of offsets of a pattern, and the matched quality is a label of that
\* set; 60 64 67 72, a major triad with its root doubled, is "maj" on 60
C19_DuplicatesCollapse ==
    (Returned("analyzeNotes") /\ Cardinality(args.activeNotes) >= 3) =>
        LET collected(root) == {(n - root) % 12 : n \in args.activeNotes}
            labels(root) == {ChordPatternInsertions[i][1] : i \in
                                {j \in 1..Len(ChordPatternInsertions) :
                                    Range(ChordPatternInsertions[j][2]) = collected(root)}}
            candidates == {root \in args.activeNotes : labels(root) # {}}
        IN /\ candidates = {} => MatchedQuality = ""
           /\ candidates # {} =>
                 (MatchedRoot = Min(candidates) /\ MatchedQuality \in labels(MatchedRoot))
           /\ args.activeNotes = {60, 64, 67, 72} => (MatchedQuality = "maj" /\ MatchedRoot = 60)

C21_NumeralUsesQuality ==
    (Returned("analyzeNotes") /\ Cardinality(args.activeNotes) >= 3) =>
        LET degree == IF args.key.isMajor THEN 7 ELSE 2
            step == IF args.key.isMajor THEN 11 ELSE 2
            onDegree == MatchedRoot % 12 = (args.key.tonic + step) % 12
            diatonic == ~Analysis.isNonDiatonic
            base == IF args.key.isMajor THEN "vii" ELSE "ii"
        IN (MatchedQuality # "" /\ onDegree /\ diatonic) =>
              /\ MatchedQuality = OSLASH \o "7" =>
                    Analysis.romanNumeral = base \o Analysis.inversionFigure
              /\ MatchedQuality \in {"dim", "dim7"} =>
                    Analysis.romanNumeral = base \o DEG \o Analysis.inversionFigure

\* C22: for every key and pitch class of 0..11, getScaleDegree returns d of
\* 1..7 exactly when (pitch class - tonic) mod 12 is the d-th scale step of
\* the mode (0 2 4 5 7 9 11 major, 0 2 3 5 7 8 10 natural minor) and -1
\* otherwise; in every key exactly seven pitch classes have a degree, no two
\* share one, and the steps are those findAccidentalNotes and
\* detectSecondaryDominant use
C22_ScaleDegreeTable ==
    Returned("getScaleDegree") =>
        LET key == args.key
            steps == IF key.isMajor THEN <<0, 2, 4, 5, 7, 9, 11>> ELSE <<0, 2, 3, 5, 7, 8, 10>>
            chromaticStep == (args.noteClass - key.tonic) % 12
            withDegree == {c \in 0..11 : getScaleDegree(c, key) # -1}
        IN /\ \A d \in 1..7 : (ret = d) <=> (chromaticStep = steps[d])
           /\ ret \in 1..7 \/ ret = -1
           /\ (ret = -1) <=> (chromaticStep \notin Range(steps))
           /\ Cardinality(withDegree) = 7
           /\ \A c1, c2 \in withDegree :
                 getScaleDegree(c1, key) = getScaleDegree(c2, key) => c1 = c2
           /\ steps = (IF key.isMajor THEN majorScaleSteps ELSE minorScaleSteps)
           /\ withDegree = diatonicNotes(key)
           /\ \A d \in 1..7 :
                 /\ getScaleDegree((key.tonic + steps[d]) % 12, key) = d
                 /\ detectSecondaryDominant((key.tonic + steps[d] + 7) % 12, "maj", key) # ""

\* the degree of the pitch class of G (7), the subtonic, was looked up in A minor
C22_Witness ==
    /\ Returned("getScaleDegree")
    /\ args.key.name = "A minor"
    /\ args.noteClass = 7
    /\ ret = 7

\* C23: for every note of 0..127 and every key, midiNoteToNoteNameInKey
\* returns the spelling followed by the octave floor(note / 12) - 1, the
\* spelling of the pitch class being the sharp name if it is among the sharps
\* of the key, else the flat name if it is among the flats, else the sharp
\* name; for a key without flats this is midiNoteToNoteName (66 is "F#4"),
\* and in F Major 70 is B-flat 4
C23_SpellingInKey ==
    Returned("midiNoteToNoteNameInKey") =>
        LET note == args.midiNote
            key == args.key
            sharp == <<"C", "C#", "D", "D#", "E", "F", "F#", "G", "G#", "A", "A#", "B">>
            flat == <<"C", "D" \o FLAT, "D", "E" \o FLAT, "E", "F", "G" \o FLAT, "G",
                      "A" \o FLAT, "A", "B" \o FLAT, "B">>
            class == note % 12
            octave == (note \div 12) - 1
            spelling == IF \E i \in 1..Len(key.sharps) : key.sharps[i] = class THEN sharp[class + 1]
                        ELSE IF \E i \in 1..Len(key.flats) : key.flats[i] = class THEN flat[class + 1]
                        ELSE sharp[class + 1]
        IN /\ ret = spelling \o ToString(octave)
           /\ key.flats = <<>> => ret = midiNoteToNoteName(note)
           /\ (key.flats = <<>> /\ note = 66) => ret = "F#4"
           /\ (key.name = "F Major" /\ note = 70) => ret = "B" \o FLAT \o "4"

\* note 70 was named in F Major
C23_Witness ==
    /\ Returned("midiNoteToNoteNameInKey")
    /\ args.key.name = "F Major"
    /\ args.midiNote = 70
    /\ ret = "B" \o FLAT \o "4"

\* the messages the GUI thread holds or will take with its next drain: its
\* local copy and the queue (one and the same between the copy and the clear)
Pending ==
    IF mainThread.pc = "clear" THEN manager.midiMessageQueue
    ELSE mainThread.messages \o manager.midiMessageQueue

\* C24: under every interleaving of midiCallback on the driver thread and
\* processPendingMidiMessages on the timer, each message the callback pushed
\* is taken by one drain and handled once, in the order of arrival: the
\* messages handled so far, followed by those a drain holds and those still
\* queued, are the messages pushed, in order and without repetition; and a
\* thread reads or writes the queue only while it holds midiQueueMutex
C24_QueueHandOff ==
    /\ history.handled \o [i \in 1..Len(Pending) |-> Pending[i].timeStamp] = history.pushed
    /\ \A i, j \in 1..Len(history.pushed) : i < j => history.pushed[i] < history.pushed[j]
    /\ mainThread.pc = "clear" => mainThread.messages = manager.midiMessageQueue
    /\ driver.pc \in {"push", "unlock"} => manager.midiQueueMutex = "driver"
    /\ mainThread.pc \in {"copy", "clear", "unlock"} => manager.midiQueueMutex = "mainThread"
    /\ (manager.midiConnected /\ ~manager.isDestroying /\ driver.pc = "unlock") =>
           history.pushed # <<>> /\ history.pushed[Len(history.pushed)] = driver.message[1].timeStamp

\* a message arrived while a drain was inside its critical section, after
\* an earlier message had been handled, and waits for the mutex
C24_Witness ==
    /\ manager.midiConnected /\ ~manager.isDestroying
    /\ mainThread.pc = "clear"
    /\ mainThread.messages # <<>>
    /\ driver.pc = "lock"
    /\ history.handled # <<>>

\* the number of times the name s stands among the signals noted so far
Count(s) == Cardinality({i \in 1..Len(history.signals) : history.signals[i] = s})

\* C25: the polling handles connection changes in both directions for the
\* life of the object: whenever checkForMidiDevices has run with a device
\* among the ports the manager is connected, also after an earlier
\* disconnection; while it is connected midiCallback enqueues (isDestroying
\* is false); and each disconnection by the poll is announced by a
\* deviceDisconnected signal
C25_PollingReconnects ==
    /\ history.polled = <<TRUE>> => manager.midiConnected
    /\ history.polled = <<FALSE>> => ~manager.midiConnected
    /\ manager.midiConnected => ~manager.isDestroying
    /\ Count("deviceDisconnected") = Count("disconnectMidi")

\* C26: whenever analyzeChord matches a quality, the input has exactly 3 or
\* 4 notes, of pairwise distinct pitch classes; every input of 5 or more
\* notes, and every input holding two notes of one pitch class, is reported
\* as "Cluster (N notes)" with romanNumeral "?"
C26_MatchedSizes ==
    (Returned("analyzeNotes") /\ Cardinality(args.activeNotes) >= 3) =>
        LET size == Cardinality(args.activeNotes)
            distinctClasses == \A m, n \in args.activeNotes : m % 12 = n % 12 => m = n
        IN /\ MatchedQuality # "" => (size \in {3, 4} /\ distinctClasses)
           /\ (size >= 5 \/ ~distinctClasses) =>
                 /\ MatchedQuality = ""
                 /\ Analysis.chordName = "Cluster (" \o ToString(size) \o " notes)"
                 /\ ret.text = Analysis.chordName
                 /\ Analysis.romanNumeral = "?"

\* five notes of distinct pitch classes, those of a major ninth chord, were
\* analysed
C26_Witness ==
    /\ Returned("analyzeNotes")
    /\ args.activeNotes = {60, 62, 64, 67, 71}
    /\ MatchedQuality = ""
    /\ ret.text = "Cluster (5 notes)"
    /\ Analysis.romanNumeral = "?"

\* C27: for every set of notes whose pitch classes form a symmetric chord,
\* an augmented triad (three classes 4 semitones apart) or a diminished
\* seventh (four classes 3 semitones apart), in any voicing and any key, the
\* lowest note is the root: the quality is "aug" or "dim7", rootNote =
\* bassNote, the name has no slash suffix and the figure is that of the root
\* position ("" for aug, degree sign and superscript 7 for dim7)
C27_SymmetricChords ==
    (Returned("analyzeNotes") /\ Cardinality(args.activeNotes) >= 3) =>
        LET classes == {n % 12 : n \in args.activeNotes}
            lowest == Min(args.activeNotes)
            augmented == Cardinality(classes) = 3 /\ \A c \in classes : (c + 4) % 12 \in classes
            diminished == Cardinality(classes) = 4 /\ \A c \in classes : (c + 3) % 12 \in classes
            quality == IF augmented THEN "aug" ELSE "dim7"
        IN (augmented \/ diminished) =>
              /\ MatchedQuality = quality
              /\ MatchedRoot = lowest
              /\ Analysis.rootNote = lowest
              /\ Analysis.bassNote = lowest
              /\ ret.text = midiNoteToNoteNameInKey(lowest, args.key) \o " " \o quality
              /\ Analysis.inversionFigure = (IF augmented THEN "" ELSE DEG \o SUP7)

\* C28: every ChordAnalysis returned by analyzeChord is consistent:
\* romanNumeral is not empty; accidentalNotes not empty implies isNonDiatonic;
\* isSecondaryDominant implies isNonDiatonic, functionName "Secondary
\* Dominant" and a secondaryTarget that is not empty; and functionName is one
\* of the diatonic function names only if isNonDiatonic is false and
\* accidentalNotes is empty
C28_ConsistentAnalysis ==
    (Returned("analyzeNotes") /\ Cardinality(args.activeNotes) >= 3) =>
        /\ Analysis.romanNumeral # ""
        /\ Analysis.accidentalNotes # <<>> => Analysis.isNonDiatonic
        /\ Analysis.isSecondaryDominant =>
              /\ Analysis.isNonDiatonic
              /\ Analysis.functionName = "Secondary Dominant"
              /\ Analysis.secondaryTarget # ""
        /\ Analysis.functionName \in {"Tonic", "Supertonic", "Mediant", "Subdominant",
                                      "Dominant", "Submediant", "Leading Tone", "Subtonic"} =>
              (~Analysis.isNonDiatonic /\ Analysis.accidentalNotes = <<>>)

\* a chord with an accidental was analysed and reported as the secondary
\* dominant of the second degree
C28_Witness ==
    /\ Returned("analyzeNotes")
    /\ args.key.name = "C Major"
    /\ args.activeNotes = {57, 61, 64}
    /\ Analysis.accidentalNotes = <<61>>
    /\ Analysis.isNonDiatonic
    /\ Analysis.isSecondaryDominant
    /\ Analysis.secondaryTarget = "ii"

\* C29: every ChordAnalysis returned by analyzeChord, on the matched path
\* and on the cluster path alike, has bassNote equal to the lowest input
\* note and rootNote assigned to a note of the input that is not below
\* bassNote; no member of the object is left unassigned
C29_RootAssigned ==
    (Returned("analyzeNotes") /\ Cardinality(args.activeNotes) >= 3) =>
        /\ Analysis.bassNote = Min(args.activeNotes)
        /\ Analysis.rootNote \in args.activeNotes
        /\ Analysis.rootNote >= Analysis.bassNote
        /\ analyzeChordFrame(SetToVector(args.activeNotes), args.key).analysis.rootNote # <<>>

\* C30: on every call of calculateInversionFigure that analyzeChord makes,
\* comparing note numbers and comparing pitch classes agree: whenever a
\* quality is matched, bassNote and rootNote of one pitch class are one
\* note, a name with a slash suffix never has a bass of the pitch class of
\* its root, and the figure is the one the comparison of pitch classes gives
C30_NumbersAgreeWithClasses ==
    (Returned("analyzeNotes") /\ Cardinality(args.activeNotes) >= 3 /\ MatchedQuality # "") =>
        LET bassNote == Analysis.bassNote
            rootNote == MatchedRoot
            sameClass == bassNote % 12 = rootNote % 12
        IN /\ Analysis.rootNote = rootNote
           /\ sameClass => bassNote = rootNote
           /\ Contains(ret.text, "/") => ~sameClass
           /\ ~Contains(ret.text, "/") => bassNote = rootNote
           /\ Analysis.inversionFigure =
                 calculateInversionFigure(MatchedQuality,
                                          IF sameClass THEN rootNote ELSE bassNote, rootNote)

\* a major triad with its third in the bass was matched and named with a
\* slash suffix
C30_Witness ==
    /\ Returned("analyzeNotes")
    /\ args.key.name = "C Major"
    /\ args.activeNotes = {64, 67, 72}
    /\ MatchedQuality = "maj"
    /\ MatchedRoot = 72
    /\ Analysis.bassNote = 64
    /\ ret.text = "C5 maj/E4"
    /\ Analysis.inversionFigure = SUP6

=============================================================================
